---- MODULE Spec2Model ----
(***************************************************************************)
(* Model of the Explorer animation engine                                  *)
(* (src/src/components/ExplorerAnimation/explorer-engine.ts).              *)
(*                                                                         *)
(* Numbers.  The engine computes with real (floating point) numbers; the   *)
(* model computes with integers in fixed units:                            *)
(*   lengths and positions   1/PX of a pixel                               *)
(*   time                    ticks of 1/TPS of a second                    *)
(*   parallax                twentieths (every parallax of the engine is a *)
(*                           multiple of 0.05)                             *)
(*   wind, life, fractions   thousandths                                   *)
(*   angles and phases       milliradians                                  *)
(* PX is chosen so that every product the engine forms from these (speed   *)
(* times dt, camera offset times parallax, wind times dt) is a whole       *)
(* number of units.  Math.sin is a rational approximation (Sin1000).       *)
(*                                                                         *)
(* Math.random.  The values Math.random returns are inputs.  A run draws   *)
(* them from one of the sequences of Tapes (seed), read cyclically from    *)
(* position rng in the order of the engine's calls.  draw() takes its      *)
(* tentacle jitter from one of the sequences of JitterTapes.               *)
(*                                                                         *)
(* Entities.  An entity is a record; id stands for the identity of the     *)
(* JavaScript object.  Fields that only shape what is painted (star size,  *)
(* cloud circles, wingspan, Bezier control points, blade angles) are left  *)
(* out.  born, sx0 and cluster are history fields: the clock and the       *)
(* screen position at the push into the pool, and the spawn event.         *)
(***************************************************************************)
EXTENDS Integers, Sequences, FiniteSets, TLC

VARIABLES
  isMobile,       \* options.isMobile
  reducedMotion,  \* let reducedMotion
  width, height,  \* let width, height           (units)
  baseGroundY,    \* let baseGroundY             (units)
  worldOffset,    \* let worldOffset             (units)
  walkPhase,      \* let walkPhase               (milliradians)
  time,           \* let time                    (ticks)
  wind,           \* let wind                    (thousandths)
  pools,          \* pools: type -> [items, count]
  spawners,       \* spawners[type].nextSpawnAt  (units)
  colors,         \* let colors: CachedColors
  theme,          \* what getColor answers (the host's current theme)
  seed, rng,      \* Math.random: the tape of the run and the position in it
  nextId,         \* the next object identity
  lastOp,         \* history: the last call of the public API
  admitted,       \* history: the pushes of the last call's spawner
  events,         \* history: spawnEntity calls per type in the last call
  culled,         \* history: the entities the last call's cull pass removed
  drawn,          \* the drawing commands the last call issued
  quota,          \* irregular calls left (a bound of the model)
  capTables,      \* the module's ENTITY_CAPS and MOBILE_ENTITY_CAPS objects
  other,          \* the closure state of a second engine on the same page
  leg,            \* a hip-to-foot vector and the knee computed for it
  gait            \* a walk phase and the lift of the two feet computed for it

engineVars == <<reducedMotion, width, height, baseGroundY, worldOffset, walkPhase,
                time, wind, pools, spawners, colors>>
vars == <<isMobile, reducedMotion, width, height, baseGroundY, worldOffset, walkPhase,
          time, wind, pools, spawners, colors, theme, seed, rng, nextId, lastOp,
          admitted, events, culled, drawn, quota, capTables, other, leg, gait>>
\* what the calls of one engine's API have no access to or never write
outerVars == <<capTables, other, leg, gait>>

(***************************************************************************)
(* Units                                                                   *)
(***************************************************************************)
PX == 420 * 1000
TPS == 4 * 5
\* one pixel per second, in units per tick
UPT == PX \div TPS
PI1000 == 3142
TWOPI1000 == 6283

(***************************************************************************)
(* Bounds of the model                                                     *)
(***************************************************************************)
\* the clock a run may reach, in ticks
MaxTicks == 8
\* the clock an undisturbed walk may reach, in ticks
MaxWalkTicks == 120
\* the clock a long walk may reach, in ticks: far enough for mountains, the
\* slowest terrain, to leave by the left margin
MaxTrekTicks == 400
\* the clock an unbroken run of frames may reach, in ticks: one minute, in
\* which the seeded stars, the slowest terrain, cross the canvas and the margin
MaxRunTicks == 1200
\* the clock either of two engines on one page may reach, in ticks
MaxPairTicks == 2
\* irregular calls per run: update with dt other than a full frame, a resize to
\* another size, setReducedMotion(true)
MaxIrregular == 1
\* the walk phases the foot lift is computed for: from one turn back to this
\* many turns forward, every milliradian
MaxGaitTurns == 2
\* (width, height) pairs the host may give, in pixels: the sizes of a resize and
\* of the canvas at construction (always InitSize where any call may follow)
InitSize == <<23, 100>>
Sizes == {InitSize, <<68, 150>>}
\* dt arguments of update, in ticks: -0.15 s, -0.05 s, 0, 0.05 s, 0.1 s, 1.0 s
DtSet == {-3, -1, 0, 1, 2, 20}
\* the sequences Math.random may return, in thousandths
Tapes == << <<0>>, <<999>>, <<500, 0, 999, 250, 750, 100, 900>> >>
\* the sequences Math.random may return to the tentacle loop of drawJellyfish
\* within one draw() call, read cyclically, in thousandths
JitterTapes == << <<0>>, <<999>>, <<0, 999>> >>
\* what the host's color lookup may answer: the tokens of the light or of the
\* dark theme, or those of a page whose style sheet lacks the tokens of
\* UnstyledTokens, for which the lookup answers the empty string
Themes == {"light", "dark", "unstyled"}
UnstyledTokens == {"--color-primary", "--color-border"}

(***************************************************************************)
(* Constants of the engine                                                 *)
(***************************************************************************)
WALK_SPEED == 45
MAX_DT == TPS \div 10
GROUND_Y_RATIO == 80
FADE_IN_DISTANCE == 60
CULL_MARGIN == 200

SPAWN_TYPES == <<"star", "cloud", "mountain", "bird", "ufo", "meteor", "balloon",
                 "whale", "jellyfish", "grassTuft", "pebble">>
TypeSet == {SPAWN_TYPES[i] : i \in 1..Len(SPAWN_TYPES)}

ENTITY_CAPS ==
  [star |-> 30, cloud |-> 6, mountain |-> 12, bird |-> 8, ufo |-> 3, meteor |-> 2,
   balloon |-> 2, whale |-> 1, jellyfish |-> 2, grassTuft |-> 20, pebble |-> 10]
MOBILE_ENTITY_CAPS ==
  [star |-> 18, cloud |-> 4, mountain |-> 10, bird |-> 6, ufo |-> 2, meteor |-> 1,
   balloon |-> 1, whale |-> 1, jellyfish |-> 1, grassTuft |-> 12, pebble |-> 6]
\* const caps = isMobile ? MOBILE_ENTITY_CAPS : ENTITY_CAPS: a reference to one
\* of the two module-level objects
caps == IF isMobile THEN capTables.mobile ELSE capTables.desktop

\* const sm = isMobile ? 1.5 : 1, doubled
sm2 == IF isMobile THEN 3 ELSE 2

\* the parallax each create function writes, in twentieths
Parallax ==
  [star |-> 2, cloud |-> 3, mountain |-> 4, bird |-> 10, ufo |-> 12, meteor |-> 1,
   balloon |-> 7, whale |-> 11, jellyfish |-> 8, grassTuft |-> 20, pebble |-> 20]

\* spawners: [start multiplier of width in tenths, minInterval, maxInterval] (pixels)
SpawnCfg ==
  [star |-> <<0, 50, 100>>, cloud |-> <<4, 180, 350>>, mountain |-> <<8, 400, 700>>,
   bird |-> <<5, 200, 400>>, meteor |-> <<8, 400, 800>>, balloon |-> <<22, 600, 1000>>,
   ufo |-> <<30, 900, 1800>>, whale |-> <<38, 1400, 2500>>,
   jellyfish |-> <<25, 800, 1400>>, grassTuft |-> <<0, 30, 70>>,
   pebble |-> <<2, 40, 90>>]
minInterval(type) == SpawnCfg[type][2] * sm2 * (PX \div 2)
maxInterval(type) == SpawnCfg[type][3] * sm2 * (PX \div 2)
InitialSpawners(w) == [t \in TypeSet |-> (w \div 10) * SpawnCfg[t][1]]

(***************************************************************************)
(* Helpers                                                                 *)
(***************************************************************************)
Abs(x) == IF x < 0 THEN -x ELSE x
Min(a, b) == IF a < b THEN a ELSE b
Max(a, b) == IF a > b THEN a ELSE b

\* Math.random(): the value at position p of the run's tape, in thousandths
Rnd(p) == LET t == Tapes[seed] IN t[(p % Len(t)) + 1]

\* rand(min, max) = min + Math.random() * (max - min), f the random fraction
rand(min, max, f) == min + ((max - min) * f) \div 1000
\* the same for lengths in units, without overflow
randU(min, max, f) == min + ((max - min) \div 1000) * f
\* randInt(min, max) = floor(rand(min, max + 1))
randInt(min, max, f) == min + ((max + 1 - min) * f) \div 1000

\* Math.sin of x milliradians, in thousandths (Bhaskara's approximation)
SinHalf(x) == LET n == x * (PI1000 - x) IN (400 * n) \div ((12340205 - n) \div 10)
Sin1000(x) ==
  LET r == x % TWOPI1000
  IN  IF r < PI1000 THEN SinHalf(r) ELSE -SinHalf(Min(r - PI1000, PI1000))
Cos1000(x) == Sin1000(x + PI1000 \div 2)

\* wind = sin(time * 0.2) * 0.3 + sin(time * 0.07) * 0.2, t in ticks
WindAt(t) == (3 * Sin1000(10 * t) + 2 * Sin1000((35 * t) \div 10)) \div 10

\* toWorldX / sx at camera offset off, parallax p in twentieths
toWorldX(screenX, p, off) == screenX + (off \div 20) * p
sx(entityWorldX, p, off) == entityWorldX - (off \div 20) * p

(***************************************************************************)
(* Pools                                                                   *)
(***************************************************************************)
Undef == [id |-> 0]
createPool(capacity) == [items |-> [i \in 1..capacity |-> Undef], count |-> 0]
poolPush(pool, item) ==
  IF pool.count < Len(pool.items)
  THEN [items |-> [pool.items EXCEPT ![pool.count + 1] = item], count |-> pool.count + 1]
  ELSE [items |-> Append(pool.items, item), count |-> pool.count + 1]
\* a swap-remove that reads the last item after the count is lowered by two
poolSwapRemove_OffByOne(pool, index) ==
  LET c == pool.count - 1
      last == IF c >= 1 THEN pool.items[c] ELSE pool.items[1]
  IN  IF index - 1 < c /\ last # Undef
      THEN [items |-> [pool.items EXCEPT ![index] = last], count |-> c]
      ELSE [items |-> pool.items, count |-> c]
poolSwapRemove(pool, index) ==
  LET c == pool.count - 1
      last == pool.items[c + 1]
  IN  IF index - 1 < c /\ last # Undef
      THEN [items |-> [pool.items EXCEPT ![index] = last], count |-> c]
      ELSE [items |-> pool.items, count |-> c]
Live(pool) == SubSeq(pool.items, 1, pool.count)

(***************************************************************************)
(* Entity creation.  h is the height, g the ground line, p the position of *)
(* the function's first Math.random call on the tape.                      *)
(***************************************************************************)
Base(type, worldX, y) ==
  [id |-> 0, type |-> type, worldX |-> worldX, y |-> y, parallax |-> Parallax[type],
   born |-> 0, sx0 |-> 0]

\* the number of Math.random calls of each create function
NDraws(type, p) ==
  CASE type = "star" -> 4
    [] type = "cloud" -> 9
    [] type = "mountain" -> 4
    [] type = "bird" -> 4
    [] type = "ufo" -> 4
    [] type = "meteor" -> 4
    [] type = "balloon" -> 4
    [] type = "whale" -> 3
    [] type = "jellyfish" -> 5 + randInt(3, 5, Rnd(p))
    [] type = "grassTuft" -> 2 + randInt(2, 3, Rnd(p))
    [] type = "pebble" -> 2

createStar(worldX, h, g, p) ==
  Base("star", worldX, randU((h \div 100) * 5, (h \div 100) * 45, Rnd(p)))

createCloud(worldX, h, g, p) ==
  Base("cloud", worldX, randU((h \div 100) * 10, (h \div 100) * 35, Rnd(p + 1)))
    @@ [driftSpeed |-> randU(1 * UPT, 4 * UPT, Rnd(p + 7))]

createMountain(worldX, ph, wL, wR, h, g, p) ==
  Base("mountain", worldX, g)
    @@ [peakHeight |-> ph, leftWidth |-> wL, rightWidth |-> wR, cluster |-> 0]

createBird(worldX, h, g, p) ==
  Base("bird", worldX, randU((h \div 100) * 10, (h \div 100) * 40, Rnd(p)))
    @@ [velocity |-> randU(10 * UPT, 20 * UPT, Rnd(p + 1)),
        flapPhase |-> rand(0, TWOPI1000, Rnd(p + 2)),
        formationOffsetX |-> 0, formationOffsetY |-> 0]

createUfo(worldX, h, g, p) ==
  Base("ufo", worldX, randU((h \div 100) * 8, (h \div 100) * 25, Rnd(p)))
    @@ [hoverPhase |-> rand(0, TWOPI1000, Rnd(p + 2))]

createMeteor(worldX, h, g, p) ==
  Base("meteor", worldX, randU((h \div 100) * 2, (h \div 100) * 20, Rnd(p)))
    @@ [angle |-> rand(150, 400, Rnd(p + 1)),
        speed |-> randU(200 * UPT, 350 * UPT, Rnd(p + 2)),
        life |-> 2000, maxLife |-> 2000]

createBalloon(worldX, h, g, p) ==
  Base("balloon", worldX, randU((h \div 100) * 8, (h \div 100) * 30, Rnd(p)))
    @@ [driftSpeed |-> randU(4 * UPT, 12 * UPT, Rnd(p + 2)),
        swayPhase |-> rand(0, TWOPI1000, Rnd(p + 3))]

createWhale(worldX, h, g, p) ==
  LET s == randU(40 * PX, 95 * PX, Rnd(p))
      minY == (s \div 100) * 42 + 4 * PX
      maxY == (h \div 100) * 45 - (s \div 100) * 42
  IN  Base("whale", worldX,
           randU(Max(minY, (h \div 100) * 12), Max(minY, maxY), Rnd(p + 1)))
        @@ [size |-> s, velocity |-> 0, bobPhase |-> rand(0, TWOPI1000, Rnd(p + 2))]

createJellyfish(worldX, h, g, p) ==
  LET tc == randInt(3, 5, Rnd(p))
  IN  Base("jellyfish", worldX,
           randU((h \div 100) * 10, (h \div 100) * 40, Rnd(p + 1 + tc)))
        @@ [size |-> randU(6 * PX, 16 * PX, Rnd(p + 2 + tc)),
            pulsePhase |-> rand(0, TWOPI1000, Rnd(p + 3 + tc)),
            driftSpeed |-> randU(2 * UPT, 6 * UPT, Rnd(p + 4 + tc)),
            tentacleCount |-> tc]

createGrassTuft(worldX, h, g, p) ==
  Base("grassTuft", worldX, g) @@ [bladeCount |-> randInt(2, 3, Rnd(p))]

createPebble(worldX, h, g, p) ==
  Base("pebble", worldX, g + randU(1 * PX, 3 * PX, Rnd(p)))

\* simpleCreators[type](worldX)
simpleCreate(type, worldX, h, g, p) ==
  CASE type = "star" -> createStar(worldX, h, g, p)
    [] type = "cloud" -> createCloud(worldX, h, g, p)
    [] type = "ufo" -> createUfo(worldX, h, g, p)
    [] type = "meteor" -> createMeteor(worldX, h, g, p)
    [] type = "balloon" -> createBalloon(worldX, h, g, p)
    [] type = "whale" -> createWhale(worldX, h, g, p)
    [] type = "jellyfish" -> createJellyfish(worldX, h, g, p)
    [] type = "grassTuft" -> createGrassTuft(worldX, h, g, p)
    [] type = "pebble" -> createPebble(worldX, h, g, p)

(***************************************************************************)
(* The part of the state that spawning and seeding thread through:         *)
(*   S.pools, S.next (nextSpawnAt per type), S.rng, S.nextId, the history  *)
(*   S.admitted and S.events, and the values they read: S.w, S.h, S.g      *)
(*   (width, height, ground line), S.off (camera offset), S.now (clock),   *)
(*   S.cap (capacity table).                                               *)
(* Object identities start at 1; the loops below read S.nextId in their    *)
(* exit test so that each step's state is evaluated before the next step.  *)
(***************************************************************************)
\* poolPush(pools[type], e) of a new object, with its history
Push(S, type, e, event) ==
  LET ee == [e EXCEPT !.id = S.nextId, !.born = S.now,
                      !.sx0 = sx(e.worldX, e.parallax, S.off)]
  IN  [S EXCEPT !.pools[type] = poolPush(@, ee),
                !.nextId = @ + 1,
                !.admitted = Append(@, [type |-> type, id |-> S.nextId, event |-> event,
                                        screenX |-> ee.sx0])]

RECURSIVE InsertPeak(_, _)
\* one step of the stable sort by (b.peakHeight - a.peakHeight)
InsertPeak(sorted, peak) ==
  IF sorted = <<>> THEN <<peak>>
  ELSE IF Head(sorted).peakHeight >= peak.peakHeight
       THEN <<Head(sorted)>> \o InsertPeak(Tail(sorted), peak)
       ELSE <<peak>> \o sorted
RECURSIVE SortPeaks(_)
SortPeaks(peaks) ==
  IF peaks = <<>> THEN <<>>
  ELSE InsertPeak(SortPeaks(SubSeq(peaks, 1, Len(peaks) - 1)), peaks[Len(peaks)])

RECURSIVE PushAll(_, _, _, _)
PushAll(S, type, es, event) ==
  IF es = <<>> \/ S.nextId < 1 THEN S ELSE PushAll(Push(S, type, Head(es), event), type, Tail(es), event)

\* peak i (from 0) of a cluster of count peaks; q the position of its first draw
ClusterPeak(S, centerWorldX, count, i, q) ==
  LET c(x) == ((count - Abs(2 * i - count + 1)) * x) \div count
      maxH == (S.g \div 100) * 85
      ph == Min(randU(55 * PX, 115 * PX, Rnd(q)) + c(randU(20 * PX, 50 * PX, Rnd(q + 1))),
                maxH)
      spread == ((2 * i - count + 1) * randU(30 * PX, 55 * PX, Rnd(q + 2))) \div 2
  IN  createMountain(centerWorldX + spread, ph, randU(25 * PX, 65 * PX, Rnd(q + 3)),
                     randU(25 * PX, 65 * PX, Rnd(q + 4)), S.h, S.g, q + 5)

\* spawnMountainCluster without the break on a full pool
spawnMountainCluster_NoBreak(S, centerWorldX, event) ==
  LET count == randInt(3, 5, Rnd(S.rng))
      tempPeaks == [i \in 1..count |->
                      [ClusterPeak(S, centerWorldX, count, i - 1, S.rng + 1 + 9 * (i - 1))
                         EXCEPT !.cluster = event]]
  IN  [PushAll(S, "mountain", SortPeaks(tempPeaks), event) EXCEPT !.rng = @ + 1 + 9 * count]

spawnMountainCluster(S, centerWorldX, event) ==
  LET count == randInt(3, 5, Rnd(S.rng))
      \* the loop breaks once mountains.count + tempPeaks.length >= caps.mountain
      n == Min(count, Max(0, S.cap["mountain"] - S.pools["mountain"].count))
      tempPeaks == [i \in 1..n |->
                      [ClusterPeak(S, centerWorldX, count, i - 1, S.rng + 1 + 9 * (i - 1))
                         EXCEPT !.cluster = event]]
  IN  [PushAll(S, "mountain", SortPeaks(tempPeaks), event) EXCEPT !.rng = @ + 1 + 9 * n]

RECURSIVE PushFollowers(_, _, _, _, _, _)
\* the follower loop of spawnBirdGroup, from rank i, q the position of its first draw
PushFollowers(S, leader, i, groupSize, q, event) ==
  IF i >= groupSize \/ S.pools["bird"].count >= S.cap["bird"] THEN [S EXCEPT !.rng = q]
  ELSE LET f == [createBird(leader.worldX, S.h, S.g, q) EXCEPT
                   !.y = leader.y, !.velocity = leader.velocity,
                   !.formationOffsetX = -randU(12 * PX, 20 * PX, Rnd(q + 4)) * i,
                   !.formationOffsetY = (IF i % 2 = 0 THEN -1 ELSE 1)
                                          * randU(6 * PX, 12 * PX, Rnd(q + 5)) * i]
       IN  PushFollowers(Push(S, "bird", f, event), leader, i + 1, groupSize, q + 6, event)

spawnBirdGroup(S, screenX, event) ==
  LET wX == toWorldX(screenX, 10, S.off)
      isFormation == Rnd(S.rng) < 300
      groupSize == IF isFormation THEN randInt(2, 3, Rnd(S.rng + 1)) ELSE 1
      q == S.rng + (IF isFormation THEN 2 ELSE 1)
      leader == createBird(wX, S.h, S.g, q)
  IN  PushFollowers(Push(S, "bird", leader, event), leader, 1, groupSize, q + 4, event)

spawnEntity(S, type, screenX) ==
  LET event == S.nextId
      S1 == [S EXCEPT !.events[type] = @ + 1]
  IN  CASE type = "mountain" -> spawnMountainCluster(S1, toWorldX(screenX, 4, S.off), event)
        [] type = "bird" -> spawnBirdGroup(S1, screenX, event)
        [] OTHER ->
             LET e == simpleCreate(type, 0, S.h, S.g, S.rng)
                 e1 == [e EXCEPT !.worldX = toWorldX(screenX, e.parallax, S.off)]
             IN  [Push(S1, type, e1, event) EXCEPT !.rng = @ + NDraws(type, S.rng)]

\* trySpawn that leaves nextSpawnAt alone when the pool is full
trySpawn_NoAdvance(S, type) ==
  LET rightEdge == S.off + S.w
      interval(p) == randU(minInterval(type), maxInterval(type), Rnd(p))
  IN  IF rightEdge < S.next[type] \/ S.pools[type].count >= S.cap[type] THEN S
      ELSE LET S1 == spawnEntity([S EXCEPT !.rng = @ + 1], type,
                                 S.w + randU(20 * PX, 80 * PX, Rnd(S.rng)))
           IN  [S1 EXCEPT !.next[type] = rightEdge + interval(S1.rng), !.rng = @ + 1]

trySpawn(S, type) ==
  LET rightEdge == S.off + S.w
      interval(p) == randU(minInterval(type), maxInterval(type), Rnd(p))
  IN  IF rightEdge < S.next[type] THEN S
      ELSE IF S.pools[type].count >= S.cap[type]
           THEN [S EXCEPT !.next[type] = rightEdge + interval(S.rng), !.rng = @ + 1]
           ELSE LET S1 == spawnEntity([S EXCEPT !.rng = @ + 1], type,
                                      S.w + randU(20 * PX, 80 * PX, Rnd(S.rng)))
                IN  [S1 EXCEPT !.next[type] = rightEdge + interval(S1.rng), !.rng = @ + 1]

RECURSIVE trySpawnAll(_, _)
\* for (const t of SPAWN_TYPES) trySpawn(t)
trySpawnAll(S, i) ==
  IF i > Len(SPAWN_TYPES) \/ S.nextId < 1 THEN S ELSE trySpawnAll(trySpawn(S, SPAWN_TYPES[i]), i + 1)

(***************************************************************************)
(* Culling (swap-and-pop)                                                  *)
(***************************************************************************)
\* a cull pass without the meteors' liveness predicate
isAlive_NoPredicate(type, item) == TRUE

\* cullAllPools' liveness predicate: type === "meteor" ? m.life > 0 : undefined
isAlive(type, item) == type = "meteor" => item.life > 0

\* the test of cullPool with the margin itself counted as off screen
Dead_AtMargin(type, item, off) ==
  \/ item = Undef
  \/ sx(item.worldX, item.parallax, off) <= -(CULL_MARGIN * PX)
  \/ ~isAlive(type, item)

\* the test of cullPool: the item at a live slot is to be removed
Dead(type, item, off) ==
  \/ item = Undef
  \/ sx(item.worldX, item.parallax, off) < -(CULL_MARGIN * PX)
  \/ ~isAlive(type, item)

RECURSIVE cullPool_Advancing(_, _, _, _)
\* a cull loop that moves on after a removal
cullPool_Advancing(pool, type, off, i) ==
  IF i > pool.count THEN pool
  ELSE IF Dead(type, pool.items[i], off)
       THEN cullPool_Advancing(poolSwapRemove(pool, i), type, off, i + 1)
       ELSE cullPool_Advancing(pool, type, off, i + 1)

RECURSIVE cullPool(_, _, _, _)
\* the while loop of cullPool from index i (from 1)
cullPool(pool, type, off, i) ==
  IF i > pool.count THEN pool
  ELSE IF Dead(type, pool.items[i], off)
       THEN cullPool(poolSwapRemove(pool, i), type, off, i)
       ELSE cullPool(pool, type, off, i + 1)

cullAllPools(ps, off) == [t \in TypeSet |-> cullPool(ps[t], t, off, 1)]

\* history: the items the while loop of cullPool removes, in order
RECURSIVE Removed(_, _, _, _)
Removed(pool, type, off, i) ==
  IF i > pool.count THEN <<>>
  ELSE IF Dead(type, pool.items[i], off)
       THEN <<pool.items[i]>> \o Removed(poolSwapRemove(pool, i), type, off, i)
       ELSE Removed(pool, type, off, i + 1)

(***************************************************************************)
(* Entity tick: d in ticks, w the wind in thousandths                      *)
(***************************************************************************)
\* wind * c pixels per second, in units per tick
WindRate(w, c) == w * c * (UPT \div 1000)
\* a phase advancing by d * r radians, r in thousandths per second
Phase(d, r) == d * (r \div TPS)

\* an entity tick in which the wind pushes a bird ten times as hard
Tick_Gale(e, d, w) ==
  CASE e.type = "bird" ->
         [e EXCEPT !.worldX = @ + (e.velocity + WindRate(w, 50)) * d,
                   !.flapPhase = @ + Phase(d, 6000)]
    [] e.type = "ufo" -> [e EXCEPT !.hoverPhase = @ + Phase(d, 2000)]
    [] e.type = "meteor" ->
         [e EXCEPT !.worldX = @ - ((e.speed \div 1000) * Cos1000(e.angle)) * d,
                   !.y = @ + ((e.speed \div 1000) * Sin1000(e.angle)) * d,
                   !.life = @ - Phase(d, 1500)]
    [] e.type = "balloon" ->
         [e EXCEPT !.worldX = @ + (e.driftSpeed + WindRate(w, 3)) * d,
                   !.swayPhase = @ + Phase(d, 1500)]
    [] e.type = "whale" ->
         [e EXCEPT !.worldX = @ + e.velocity * d, !.bobPhase = @ + Phase(d, 1200)]
    [] e.type = "jellyfish" ->
         [e EXCEPT !.worldX = @ + (e.driftSpeed + WindRate(w, 2)) * d,
                   !.pulsePhase = @ + Phase(d, 2500)]
    [] e.type = "cloud" -> [e EXCEPT !.worldX = @ + (e.driftSpeed + WindRate(w, 2)) * d]
    [] OTHER -> e

Tick(e, d, w) ==
  CASE e.type = "bird" ->
         [e EXCEPT !.worldX = @ + (e.velocity + WindRate(w, 5)) * d,
                   !.flapPhase = @ + Phase(d, 6000)]
    [] e.type = "ufo" -> [e EXCEPT !.hoverPhase = @ + Phase(d, 2000)]
    [] e.type = "meteor" ->
         [e EXCEPT !.worldX = @ - ((e.speed \div 1000) * Cos1000(e.angle)) * d,
                   !.y = @ + ((e.speed \div 1000) * Sin1000(e.angle)) * d,
                   !.life = @ - Phase(d, 1500)]
    [] e.type = "balloon" ->
         [e EXCEPT !.worldX = @ + (e.driftSpeed + WindRate(w, 3)) * d,
                   !.swayPhase = @ + Phase(d, 1500)]
    [] e.type = "whale" ->
         [e EXCEPT !.worldX = @ + e.velocity * d, !.bobPhase = @ + Phase(d, 1200)]
    [] e.type = "jellyfish" ->
         [e EXCEPT !.worldX = @ + (e.driftSpeed + WindRate(w, 2)) * d,
                   !.pulsePhase = @ + Phase(d, 2500)]
    [] e.type = "cloud" -> [e EXCEPT !.worldX = @ + (e.driftSpeed + WindRate(w, 2)) * d]
    [] OTHER -> e

\* updateBirds ... updateClouds: every live slot of every pool, once
updateEntities(ps, d, w) ==
  [t \in TypeSet |->
     [ps[t] EXCEPT !.items =
        [i \in 1..Len(ps[t].items) |->
           IF i <= ps[t].count /\ ps[t].items[i] # Undef
           THEN Tick(ps[t].items[i], d, w) ELSE ps[t].items[i]]]]

(***************************************************************************)
(* Initial scene                                                           *)
(***************************************************************************)
\* a reset that keeps the pools as they are
clearAllPools_Keep(ps) == ps
clearAllPools(ps) == [t \in TypeSet |-> [ps[t] EXCEPT !.count = 0]]

\* poolPush of a seeded object: no spawner involved, so nothing is logged
Seed(S, type, e) == [Push(S, type, e, 0) EXCEPT !.admitted = S.admitted]

starCount(mobile) == IF mobile THEN 14 ELSE 20
cloudCount(mobile) == IF mobile THEN 3 ELSE 4
grassCount(mobile) == IF mobile THEN 8 ELSE 12
pebbleCount(mobile) == IF mobile THEN 4 ELSE 6

\* a jitter range of two slots
starJitter_TwoSlots(w, n, f) == randU(0, (w \div n) * 2, f)

\* the jitter range of a seeded star: rand(0, width / starCount)
starJitter(w, n, f) == randU(0, w \div n, f)

RECURSIVE seedStars(_, _, _)
seedStars(S, i, n) ==
  IF i >= n \/ S.nextId < 1 THEN S
  ELSE LET x == (S.w * i) \div n + starJitter(S.w, n, Rnd(S.rng))
       IN  seedStars([Seed(S, "star", createStar(x, S.h, S.g, S.rng + 1))
                        EXCEPT !.rng = @ + 5], i + 1, n)

RECURSIVE seedClouds(_, _, _)
seedClouds(S, i, n) ==
  IF i >= n \/ S.nextId < 1 THEN S
  ELSE LET x == ((S.w \div 10000) * (10000 * i + 7 * Rnd(S.rng))) \div n
       IN  seedClouds([Seed(S, "cloud", createCloud(x, S.h, S.g, S.rng + 1))
                         EXCEPT !.rng = @ + 10], i + 1, n)

seedSkyEntities(S, mobile) ==
  LET S1 == seedStars(S, 0, starCount(mobile))
      S2 == seedClouds(S1, 0, cloudCount(mobile))
      x == (S.w \div 1000) * rand(550, 800, Rnd(S2.rng))
  IN  [Seed(S2, "balloon", createBalloon(x, S.h, S.g, S2.rng + 1)) EXCEPT !.rng = @ + 5]

seedBirds(S) ==
  LET b1 == [createBird((S.w \div 1000) * rand(250, 400, Rnd(S.rng)), S.h, S.g, S.rng + 1)
               EXCEPT !.flapPhase = rand(0, TWOPI1000, Rnd(S.rng + 5))]
      S1 == [Seed(S, "bird", b1) EXCEPT !.rng = @ + 6]
      leader == [createBird((S.w \div 1000) * rand(650, 850, Rnd(S1.rng)), S.h, S.g,
                            S1.rng + 1)
                   EXCEPT !.flapPhase = rand(0, TWOPI1000, Rnd(S1.rng + 5))]
      S2 == [Seed(S1, "bird", leader) EXCEPT !.rng = @ + 6]
      follower == [createBird(leader.worldX, S.h, S.g, S2.rng) EXCEPT
                     !.flapPhase = rand(0, TWOPI1000, Rnd(S2.rng + 4)),
                     !.y = leader.y, !.velocity = leader.velocity,
                     !.formationOffsetX = -randU(12 * PX, 18 * PX, Rnd(S2.rng + 5)),
                     !.formationOffsetY = randU(6 * PX, 10 * PX, Rnd(S2.rng + 6))]
  IN  IF S2.pools["bird"].count < S.cap["bird"]
      THEN [Seed(S2, "bird", follower) EXCEPT !.rng = @ + 7]
      ELSE S2

RECURSIVE seedSlots_FromRightEnd(_, _, _, _)
\* grass and pebble loops that start the jitter range at 0.8 of the slot
seedSlots_FromRightEnd(S, type, i, n) ==
  IF i >= n \/ S.nextId < 1 THEN S
  ELSE LET x == (S.w * i) \div n + randU(((S.w \div n) \div 10) * 8, S.w \div n + PX,
                                         Rnd(S.rng))
       IN  seedSlots_FromRightEnd([Seed(S, type, simpleCreate(type, x, S.h, S.g, S.rng + 1))
                                     EXCEPT !.rng = @ + 1 + NDraws(type, S.rng + 1)],
                                  type, i + 1, n)

RECURSIVE seedSlots(_, _, _, _)
\* the grass and pebble loops of seedGroundEntities
seedSlots(S, type, i, n) ==
  IF i >= n \/ S.nextId < 1 THEN S
  ELSE LET x == (S.w * i) \div n + randU(0, ((S.w \div n) \div 10) * 8, Rnd(S.rng))
       IN  seedSlots([Seed(S, type, simpleCreate(type, x, S.h, S.g, S.rng + 1))
                        EXCEPT !.rng = @ + 1 + NDraws(type, S.rng + 1)], type, i + 1, n)

seedCluster(S, lo, hi) ==
  LET S1 == spawnMountainCluster([S EXCEPT !.rng = @ + 1],
                                 (S.w \div 1000) * rand(lo, hi, Rnd(S.rng)), S.nextId)
  IN  [S1 EXCEPT !.admitted = S.admitted]

seedGroundEntities(S, mobile) ==
  LET S1 == seedCluster(S, 200, 350)
      S2 == seedCluster(S1, 700, 900)
      S3 == seedSlots(S2, "grassTuft", 0, grassCount(mobile))
  IN  seedSlots(S3, "pebble", 0, pebbleCount(mobile))

populateInitialScene(S, mobile) ==
  seedGroundEntities(seedBirds(seedSkyEntities([S EXCEPT !.pools = clearAllPools(@)],
                                               mobile)), mobile)

\* options.getColor(property) while the host shows theme th: a color string,
\* here the pair of token and theme, or the empty string
getColor(property, th) ==
  IF th = "unstyled" /\ property \in UnstyledTokens THEN <<>> ELSE <<property, th>>

\* the token each field of CachedColors is read from
ColorToken ==
  [bg |-> "--color-bg", text |-> "--color-text", textMuted |-> "--color-text-muted",
   primary |-> "--color-primary", border |-> "--color-border",
   surface |-> "--color-surface"]

\* readColors: the six tokens as getColor answers them
readColors(th) == [k \in DOMAIN ColorToken |-> getColor(ColorToken[k], th)]

NoEvents == [t \in TypeSet |-> 0]

\* the threaded state at the start of a call
Thread(ps, nx, r, nid, w, h, g, off, now, cap) ==
  [pools |-> ps, next |-> nx, rng |-> r, nextId |-> nid, admitted |-> <<>>,
   events |-> NoEvents, w |-> w, h |-> h, g |-> g, off |-> off, now |-> now, cap |-> cap]

(***************************************************************************)
(* createExplorerEngine                                                    *)
(***************************************************************************)
\* the engine constructed for a canvas of sz pixels
InitAt(sz) ==
  /\ capTables = [desktop |-> ENTITY_CAPS, mobile |-> MOBILE_ENTITY_CAPS]
  /\ isMobile \in BOOLEAN
  /\ reducedMotion \in BOOLEAN
  /\ width = sz[1] * PX /\ height = sz[2] * PX
  /\ baseGroundY = (height \div 100) * GROUND_Y_RATIO
  /\ worldOffset = 0 /\ walkPhase = 0 /\ time = 0 /\ wind = 0
  /\ theme = "light"
  /\ colors = readColors(theme)
  /\ seed \in 1..Len(Tapes)
  /\ \E S \in {populateInitialScene(
                Thread([t \in TypeSet |-> createPool(caps[t])], InitialSpawners(width),
                       0, 1, width, height, baseGroundY, 0, 0, caps), isMobile)} :
         /\ pools = S.pools
         /\ spawners = S.next
         /\ rng = S.rng
         /\ nextId = S.nextId
  /\ lastOp = "create"
  /\ admitted = <<>>
  /\ events = NoEvents
  /\ culled = <<>>
  /\ drawn = <<>>
  /\ quota = MaxIrregular

\* no second engine
NoInstance == [created |-> FALSE]
\* no foot lift computed
NoGait == [phase |-> 0, leftLift |-> 0, rightLift |-> 0, posed |-> FALSE]
\* no knee computed
NoLeg == [dx |-> 0, dy |-> 0, kneeX |-> 0, kneeY |-> 0, nan |-> FALSE, solved |-> FALSE]

Init == InitAt(InitSize) /\ other = NoInstance /\ leg = NoLeg /\ gait = NoGait

(***************************************************************************)
(* Drawing.  draw() issues canvas commands; the model keeps, per shape     *)
(* painted, the layer, the anchor x of the visibility test, the position   *)
(* the shape is painted at, and the alpha factors.                         *)
(***************************************************************************)
\* entityAlpha(screenX, parallax, canvasWidth, baseAlpha), alphas in thousandths
edgeFade(screenX, canvasWidth) ==
  LET distFromRight == canvasWidth - screenX
  IN  IF distFromRight > 0 /\ distFromRight < FADE_IN_DISTANCE * PX
      THEN distFromRight \div ((FADE_IN_DISTANCE * PX) \div 1000)
      ELSE 1000
entityAlpha(screenX, p, canvasWidth, baseAlpha) ==
  (((baseAlpha * (300 + 35 * p)) \div 1000) * edgeFade(screenX, canvasWidth)) \div 1000

\* the base alpha each draw function passes to entityAlpha (thousandths); the
\* stars' twinkle, the clouds' opacity and the meteors' life ratio are left at 1
baseAlphaOf(e) ==
  CASE e.type = "jellyfish" -> 550
    [] e.type = "balloon" -> 600
    [] e.type = "grassTuft" -> 450
    [] e.type = "pebble" -> 400
    [] e.type = "bird" -> 700
    [] e.type = "meteor" -> (e.life * 1000) \div e.maxLife
    [] OTHER -> 1000

\* every entity anchored at its camera-relative position, birds included
anchorX_NoFormation(e) == sx(e.worldX, e.parallax, worldOffset)

\* the x each draw function computes first
anchorX(e) ==
  IF e.type = "bird"
  THEN sx(e.worldX, e.parallax, worldOffset) + e.formationOffsetX
  ELSE sx(e.worldX, e.parallax, worldOffset)

\* if (x < -m || x > width + m) continue
visible(e) ==
  LET x == anchorX(e)
      m == CASE e.type = "star" -> 10 [] e.type = "cloud" -> 60 [] e.type = "whale" -> 120
             [] e.type = "jellyfish" -> 30 [] e.type = "balloon" -> 30
             [] e.type = "grassTuft" -> 15 [] e.type = "pebble" -> 5
             [] e.type = "bird" -> 20 [] e.type = "ufo" -> 40 [] OTHER -> 0
  IN  CASE e.type = "meteor" -> TRUE
        [] e.type = "mountain" ->
             ~(x + e.rightWidth < -(10 * PX) \/ x - e.leftWidth > width + 10 * PX)
        [] OTHER -> ~(x < -(m * PX) \/ x > width + m * PX)

\* where the shape is painted
paintX(e) ==
  IF e.type = "balloon"
  THEN anchorX(e) + (Sin1000(e.swayPhase) * 3 + wind * 2) * (PX \div 1000)
  ELSE anchorX(e)
paintY(e) ==
  CASE e.type = "bird" -> e.y + e.formationOffsetY
    [] e.type = "whale" -> e.y + Sin1000(e.bobPhase) * 4 * (PX \div 1000)
    [] OTHER -> e.y

\* const tentLen = s * rand(0.8, 1.4), once per tentacle and per draw; f is the
\* random fraction of that call
tentLen(e, f) == (e.size \div 1000) * rand(800, 1400, f)

\* a shape whose painted x takes the jitter too
Shape_Jittered(e, jitter, n) ==
  [layer |-> e.type, id |-> e.id, x |-> anchorX(e),
   px |-> paintX(e) + jitter[(n % Len(jitter)) + 1], py |-> paintY(e),
   alpha |-> entityAlpha(anchorX(e), e.parallax, width, baseAlphaOf(e)),
   tent |-> IF e.type = "jellyfish"
            THEN [t \in 1..e.tentacleCount |->
                    (e.size \div 1000) * rand(800, 1400, jitter[((n + t - 1) % Len(jitter)) + 1])]
            ELSE <<>>]

\* the shape of e; n counts the Math.random calls of this draw() before e
Shape(e, jitter, n) ==
  [layer |-> e.type, id |-> e.id, x |-> anchorX(e), px |-> paintX(e), py |-> paintY(e),
   alpha |-> entityAlpha(anchorX(e), e.parallax, width, baseAlphaOf(e)),
   tent |-> IF e.type = "jellyfish"
            THEN [t \in 1..e.tentacleCount |->
                    tentLen(e, jitter[((n + t - 1) % Len(jitter)) + 1])]
            ELSE <<>>]

RECURSIVE drawPool(_, _, _, _)
\* for (let i = 0; i < pool.count; i++): the shapes of one pool, in slot order
drawPool(type, i, jitter, n) ==
  IF i > pools[type].count THEN <<>>
  ELSE LET e == pools[type].items[i]
           shown == e # Undef /\ visible(e)
           calls == IF shown /\ type = "jellyfish" THEN e.tentacleCount ELSE 0
       IN  (IF shown THEN <<Shape(e, jitter, n)>> ELSE <<>>)
             \o drawPool(type, i + 1, jitter, n + calls)

Plain(layer, x, y) ==
  [layer |-> layer, id |-> 0, x |-> x, px |-> x, py |-> y, alpha |-> 1000, tent |-> <<>>]

\* the stickman painted before the scene
DRAW_ORDER_StickmanFirst ==
  <<"bg", "stickman", "star", "meteor", "cloud", "whale", "jellyfish", "balloon",
    "mountain", "groundLine", "pebble", "grassTuft", "bird", "ufo">>

\* the order of the calls of draw()
DRAW_ORDER == <<"bg", "star", "meteor", "cloud", "whale", "jellyfish", "balloon",
                "mountain", "groundLine", "pebble", "grassTuft", "bird", "ufo",
                "stickman">>

drawLayer(layer, jitter) ==
  CASE layer = "bg" -> <<Plain("bg", width, height)>>
    [] layer = "groundLine" -> <<Plain("groundLine", width, baseGroundY)>>
    [] layer = "stickman" -> <<Plain("stickman", (width \div 100) * 35, baseGroundY - PX)>>
    [] OTHER -> drawPool(layer, 1, jitter, 0)

RECURSIVE drawFrom(_, _)
drawFrom(k, jitter) ==
  IF k > Len(DRAW_ORDER) THEN <<>>
  ELSE drawLayer(DRAW_ORDER[k], jitter) \o drawFrom(k + 1, jitter)

(***************************************************************************)
(* Public API                                                              *)
(***************************************************************************)
\* a clamp at twice the ceiling
clampDt_Twice(dt) == Min(dt, 2 * MAX_DT)

\* const d = Math.min(dt, MAX_DT)
clampDt(dt) == Min(dt, MAX_DT)

\* update without the reduced-motion return
updateSkipped_Never == FALSE
\* if (reducedMotion) return
updateSkipped == reducedMotion

RECURSIVE Flatten(_, _)
Flatten(f, i) == IF i > Len(SPAWN_TYPES) THEN <<>> ELSE f[SPAWN_TYPES[i]] \o Flatten(f, i + 1)

cycle(r) == r % Len(Tapes[seed])

\* update(dt), the clock kept within limit
UpdateTo(dt, limit) ==
  /\ lastOp' = "update"
  /\ drawn' = <<>>
  /\ UNCHANGED outerVars
  /\ UNCHANGED <<isMobile, reducedMotion, width, height, baseGroundY, colors, theme, seed>>
  /\ IF updateSkipped
     THEN /\ UNCHANGED <<worldOffset, walkPhase, time, wind, pools, spawners, rng, nextId,
                         quota>>
          /\ admitted' = <<>> /\ events' = NoEvents /\ culled' = <<>>
     ELSE LET d == clampDt(dt)
              t1 == time + d
              off1 == worldOffset + WALK_SPEED * d * UPT
              w1 == WindAt(t1)
          IN  /\ t1 <= limit /\ t1 >= -MaxIrregular
              /\ IF d = MAX_DT THEN quota' = quota ELSE quota > 0 /\ quota' = quota - 1
              /\ time' = t1
              /\ worldOffset' = off1
              /\ walkPhase' = walkPhase + Phase(d, 5000)
              /\ wind' = w1
              /\ \E S \in {trySpawnAll(Thread(updateEntities(pools, d, w1), spawners, rng,
                                              nextId, width, height, baseGroundY, off1, t1,
                                              caps), 1)} :
                   /\ pools' = cullAllPools(S.pools, off1)
                   /\ spawners' = S.next
                   /\ rng' = cycle(S.rng)
                   /\ nextId' = S.nextId
                   /\ admitted' = S.admitted
                   /\ events' = S.events
                   /\ culled' = Flatten([t \in TypeSet |-> Removed(S.pools[t], t, off1, 1)],
                                        1)

Update(dt) == UpdateTo(dt, MaxTicks)

\* Math.random is called by draw() only in the tentacle loop of drawJellyfish
jitterDrawn == \E i \in 1..pools["jellyfish"].count : visible(pools["jellyfish"].items[i])

\* a draw() that advances the walk phase as it paints the stickman
Draw_Advancing(k) ==
  /\ jitterDrawn \/ k = 1
  /\ drawn' = drawFrom(1, JitterTapes[k])
  /\ lastOp' = "draw"
  /\ UNCHANGED outerVars
  /\ admitted' = <<>> /\ events' = NoEvents /\ culled' = <<>>
  /\ walkPhase' = walkPhase + 1
  /\ UNCHANGED <<isMobile, reducedMotion, width, height, baseGroundY, worldOffset,
                 time, wind, pools, spawners, colors, theme, seed, rng, nextId, quota>>

Draw(k) ==
  /\ jitterDrawn \/ k = 1
  /\ drawn' = drawFrom(1, JitterTapes[k])
  /\ lastOp' = "draw"
  /\ UNCHANGED outerVars
  /\ admitted' = <<>> /\ events' = NoEvents /\ culled' = <<>>
  /\ UNCHANGED <<isMobile, reducedMotion, width, height, baseGroundY, worldOffset,
                 walkPhase, time, wind, pools, spawners, colors, theme, seed, rng,
                 nextId, quota>>

\* a resize of dimensions that every engine of the page reads
Resize_Shared(w, h) ==
  /\ IF w = width /\ h = height THEN quota' = quota ELSE quota > 0 /\ quota' = quota - 1
  /\ width' = w
  /\ height' = h
  /\ baseGroundY' = (h \div 100) * GROUND_Y_RATIO
  /\ other' = IF other.created
              THEN [other EXCEPT !.width = w, !.height = h,
                                 !.baseGroundY = (h \div 100) * GROUND_Y_RATIO]
              ELSE other
  /\ lastOp' = "resize"
  /\ drawn' = <<>> /\ admitted' = <<>> /\ events' = NoEvents /\ culled' = <<>>
  /\ UNCHANGED <<isMobile, reducedMotion, worldOffset, walkPhase, time, wind, pools,
                 spawners, colors, theme, seed, rng, nextId, capTables, leg, gait>>

\* a resize that also restarts the spawners for the new width
Resize_Respawning(w, h) ==
  /\ IF w = width /\ h = height THEN quota' = quota ELSE quota > 0 /\ quota' = quota - 1
  /\ width' = w
  /\ height' = h
  /\ baseGroundY' = (h \div 100) * GROUND_Y_RATIO
  /\ spawners' = InitialSpawners(w)
  /\ lastOp' = "resize"
  /\ drawn' = <<>> /\ admitted' = <<>> /\ events' = NoEvents /\ culled' = <<>>
  /\ UNCHANGED <<isMobile, reducedMotion, worldOffset, walkPhase, time, wind, pools,
                 colors, theme, seed, rng, nextId, capTables, other, leg, gait>>

Resize(w, h) ==
  /\ IF w = width /\ h = height THEN quota' = quota ELSE quota > 0 /\ quota' = quota - 1
  /\ width' = w
  /\ height' = h
  /\ baseGroundY' = (h \div 100) * GROUND_Y_RATIO
  /\ lastOp' = "resize"
  /\ UNCHANGED outerVars
  /\ drawn' = <<>> /\ admitted' = <<>> /\ events' = NoEvents /\ culled' = <<>>
  /\ UNCHANGED <<isMobile, reducedMotion, worldOffset, walkPhase, time, wind, pools,
                 spawners, colors, theme, seed, rng, nextId>>

\* the host's theme becomes th and its observer calls onThemeChange()
OnThemeChange(th) ==
  /\ IF th = theme THEN quota' = quota ELSE quota > 0 /\ quota' = quota - 1
  /\ theme' = th
  /\ colors' = readColors(th)
  /\ lastOp' = "onThemeChange"
  /\ UNCHANGED outerVars
  /\ drawn' = <<>> /\ admitted' = <<>> /\ events' = NoEvents /\ culled' = <<>>
  /\ UNCHANGED <<isMobile, reducedMotion, width, height, baseGroundY, worldOffset,
                 walkPhase, time, wind, pools, spawners, seed, rng, nextId>>

SetReducedMotion(enabled) ==
  /\ reducedMotion' = enabled
  /\ lastOp' = IF enabled THEN "setReducedMotion(true)" ELSE "setReducedMotion(false)"
  /\ UNCHANGED outerVars
  /\ drawn' = <<>> /\ admitted' = <<>> /\ events' = NoEvents /\ culled' = <<>>
  /\ UNCHANGED <<isMobile, width, height, baseGroundY, spawners, colors, theme, seed>>
  /\ IF enabled
     THEN /\ quota > 0 /\ quota' = quota - 1
          /\ worldOffset' = 0
          /\ walkPhase' = 0
          /\ time' = 0
          /\ wind' = 0
          /\ \E S \in {populateInitialScene(
                          Thread(pools, spawners, rng, nextId, width, height, baseGroundY,
                                 0, 0, caps), isMobile)} :
               /\ pools' = S.pools
               /\ rng' = cycle(S.rng)
               /\ nextId' = S.nextId
     ELSE UNCHANGED <<worldOffset, walkPhase, time, wind, pools, rng, nextId, quota>>

Next ==
  \/ \E dt \in DtSet : Update(dt)
  \/ \E k \in 1..Len(JitterTapes) : Draw(k)
  \/ \E sz \in Sizes : Resize(sz[1] * PX, sz[2] * PX)
  \/ \E th \in Themes : OnThemeChange(th)
  \/ \E b \in BOOLEAN : SetReducedMotion(b)

Spec == Init /\ [][Next]_vars

(***************************************************************************)
(* The undisturbed walk: an engine constructed at any of Sizes and then the *)
(* host's frame loop alone, update(MAX_DT) and draw(), for MaxWalkTicks    *)
(* ticks.                                                                  *)
(***************************************************************************)
InitWalk == (\E sz \in Sizes : InitAt(sz)) /\ other = NoInstance /\ leg = NoLeg /\ gait = NoGait

Frame == UpdateTo(MAX_DT, MaxWalkTicks)

NextWalk ==
  \/ Frame
  \/ \E k \in 1..Len(JitterTapes) : Draw(k)

SpecWalk == InitWalk /\ [][NextWalk]_vars

(***************************************************************************)
(* A long walk: an animated engine of the initial size driven by full      *)
(* frames, painted with the first jitter tape.                             *)
(***************************************************************************)
InitTrek == Init /\ ~reducedMotion

NextTrek ==
  \/ UpdateTo(MAX_DT, MaxTrekTicks)
  \/ Draw(1)

SpecTrek == InitTrek /\ [][NextTrek]_vars

(***************************************************************************)
(* An unbroken run: the host's frame loop calls update once per animation  *)
(* frame for as long as the page is shown, so a frame that can be taken is *)
(* eventually taken.  In an animated engine a frame is the step that       *)
(* advances the clock by MAX_DT, which is how the fairness condition names  *)
(* it.                                                                     *)
(***************************************************************************)
RunFrame == UpdateTo(MAX_DT, MaxRunTicks)

FrameTaken == time + MAX_DT <= MaxRunTicks /\ time' = time + MAX_DT

SpecRun == InitTrek /\ [][RunFrame]_vars /\ WF_time(FrameTaken)

(***************************************************************************)
(* The knee of the walking pose (computeStickmanPose).  The knee is a      *)
(* function of the vector from the hip to the foot alone; lengths here are *)
(* in thousandths of a pixel and positions are relative to the hip.        *)
(***************************************************************************)
PoseUnit == PX \div 420
UPPER_LEG == 8
\* hip-to-foot components tried, in thousandths of a pixel: none, a few
\* hundredths, the stride and leg room of the walk, the full leg and beyond
LegCoords == {-17000, -8000, -6000, -60, 0, 30, 60, 80, 6000, 8000, 11300, 13000,
              16000, 17000}

\* what Math.sqrt returns for a negative argument
NaN == -1
RECURSIVE SqrtFrom(_, _, _)
SqrtFrom(n, lo, hi) ==
  IF lo >= hi THEN lo
  ELSE LET mid == (lo + hi + 1) \div 2
       IN  IF mid * mid <= n THEN SqrtFrom(n, mid, hi) ELSE SqrtFrom(n, lo, mid - 1)
\* Math.sqrt, rounded down
Sqrt(n) == IF n < 0 THEN NaN ELSE SqrtFrom(n, 0, 46340)

\* the bend without the test of the half distance
kneeBend_Unguarded(half) ==
  Sqrt((UPPER_LEG * PoseUnit) * (UPPER_LEG * PoseUnit) - half * half)

\* const lBend = lHalf < UPPER_LEG ? Math.sqrt(UPPER_LEG ** 2 - lHalf ** 2) : 0
kneeBend(half) ==
  IF half < UPPER_LEG * PoseUnit
  THEN Sqrt((UPPER_LEG * PoseUnit) * (UPPER_LEG * PoseUnit) - half * half)
  ELSE 0

\* lDy * lInv with lInv = lDist > 0.1 ? lBend / lDist : 0
kneeOffset(v, bend, dist) == IF dist > PoseUnit \div 10 THEN (v * bend) \div dist ELSE 0

\* leftKneeX, leftKneeY (and the right knee alike) for the foot at hip + (dx, dy)
Knee(dx, dy) ==
  LET dist == Sqrt(dx * dx + dy * dy)
      half == dist \div 2
      bend == kneeBend(half)
  IN  [kneeX |-> dx \div 2 + kneeOffset(dy, bend, dist),
       kneeY |-> dy \div 2 - kneeOffset(dx, bend, dist),
       nan |-> bend = NaN]

\* the knee computation applied to a hip-to-foot vector
SolveKnee ==
  /\ ~leg.solved
  /\ leg' = [leg EXCEPT !.kneeX = Knee(leg.dx, leg.dy).kneeX,
                        !.kneeY = Knee(leg.dx, leg.dy).kneeY,
                        !.nan = Knee(leg.dx, leg.dy).nan,
                        !.solved = TRUE]
  /\ UNCHANGED <<isMobile, reducedMotion, width, height, baseGroundY, worldOffset,
                 walkPhase, time, wind, pools, spawners, colors, theme, seed, rng,
                 nextId, lastOp, admitted, events, culled, drawn, quota, capTables,
                 other, gait>>

InitKnee ==
  /\ InitAt(InitSize) /\ ~isMobile /\ ~reducedMotion /\ seed = 1
  /\ other = NoInstance
  /\ leg \in {[NoLeg EXCEPT !.dx = a, !.dy = b] : a \in LegCoords, b \in LegCoords}
  /\ gait = NoGait

NextKnee == SolveKnee

SpecKnee == InitKnee /\ [][NextKnee]_vars

(***************************************************************************)
(* The feet of the walking pose (computeStickmanPose).  The lift of each   *)
(* foot is a function of the walk phase alone.  The progress t of a leg    *)
(* through its cycle is counted in CycleUnits per cycle, lifts are in      *)
(* thousandths of a pixel.                                                 *)
(***************************************************************************)
FOOT_LIFT == 6
CycleUnits == 2 * TWOPI1000
\* a % b of the source language: the remainder has the sign of a
jsRem(a, b) == IF a >= 0 THEN a % b ELSE -((-a) % b)

\* leftT = (walkPhase % (Math.PI * 2)) / (Math.PI * 2)
leftT(phase) == 2 * jsRem(phase, TWOPI1000)
\* a right leg a quarter of a cycle behind the left
rightT_QuarterCycle(lt) == jsRem(lt + CycleUnits \div 4, CycleUnits)
\* rightT = (leftT + 0.5) % 1
rightT(lt) == jsRem(lt + CycleUnits \div 2, CycleUnits)

\* footLiftY(t, maxLift): 0 while t < 0.6, then sin((t - 0.6) * 2.5 * PI) * maxLift
footLiftY(t, maxLift) ==
  IF 10 * t < 6 * CycleUnits THEN 0
  ELSE Sin1000(((10 * t - 6 * CycleUnits) * PI1000) \div (4 * CycleUnits)) * maxLift

\* the walk phases a pose is computed for
GaitPhases == (-TWOPI1000)..(MaxGaitTurns * TWOPI1000)

\* the animated branch of computeStickmanPose applied to a walk phase
SolveGait ==
  /\ ~gait.posed
  /\ gait' = [gait EXCEPT !.leftLift = footLiftY(leftT(gait.phase), FOOT_LIFT),
                          !.rightLift = footLiftY(rightT(leftT(gait.phase)), FOOT_LIFT),
                          !.posed = TRUE]
  /\ UNCHANGED <<isMobile, reducedMotion, width, height, baseGroundY, worldOffset,
                 walkPhase, time, wind, pools, spawners, colors, theme, seed, rng,
                 nextId, lastOp, admitted, events, culled, drawn, quota, capTables,
                 other, leg>>

InitGait ==
  /\ InitAt(InitSize) /\ ~isMobile /\ ~reducedMotion /\ seed = 1
  /\ other = NoInstance /\ leg = NoLeg
  /\ gait \in {[NoGait EXCEPT !.phase = p] : p \in GaitPhases}

NextGait == SolveGait

SpecGait == InitGait /\ [][NextGait]_vars

(***************************************************************************)
(* Two engines on one page.  Each call of createExplorerEngine has its own *)
(* closure; the module's tables, Math.random and the host's theme are      *)
(* shared.  The variables hold the closure of the engine the page is       *)
(* calling; other holds the closure of the second engine.                  *)
(***************************************************************************)
\* the closure of the engine being called
Closure ==
  [created |-> TRUE, isMobile |-> isMobile, reducedMotion |-> reducedMotion,
   width |-> width, height |-> height, baseGroundY |-> baseGroundY,
   worldOffset |-> worldOffset, walkPhase |-> walkPhase, time |-> time, wind |-> wind,
   pools |-> pools, spawners |-> spawners, colors |-> colors]

\* createExplorerEngine(options) called once more: the closure it builds and
\* what it leaves of Math.random and of the object identities
createExplorerEngine(sz, mobile, rm) ==
  LET w == sz[1] * PX
      h == sz[2] * PX
      g == (h \div 100) * GROUND_Y_RATIO
      cp == IF mobile THEN capTables.mobile ELSE capTables.desktop
      S == populateInitialScene(
             Thread([t \in TypeSet |-> createPool(cp[t])], InitialSpawners(w), rng, nextId,
                    w, h, g, 0, 0, cp), mobile)
  IN  [closure |-> [created |-> TRUE, isMobile |-> mobile, reducedMotion |-> rm,
                    width |-> w, height |-> h, baseGroundY |-> g, worldOffset |-> 0,
                    walkPhase |-> 0, time |-> 0, wind |-> 0, pools |-> S.pools,
                    spawners |-> S.next, colors |-> readColors(theme)],
       rng |-> cycle(S.rng), nextId |-> S.nextId]

\* the page constructs its second engine
CreateOther(sz, mobile, rm) ==
  /\ ~other.created
  /\ \E E \in {createExplorerEngine(sz, mobile, rm)} :
       /\ E.nextId < 1 \/ other' = E.closure
       /\ rng' = E.rng
       /\ nextId' = E.nextId
  /\ lastOp' = "createOther"
  /\ drawn' = <<>> /\ admitted' = <<>> /\ events' = NoEvents /\ culled' = <<>>
  /\ UNCHANGED <<isMobile, reducedMotion, width, height, baseGroundY, worldOffset,
                 walkPhase, time, wind, pools, spawners, colors, theme, seed, quota,
                 capTables, leg, gait>>

\* the page turns to its other engine: the next calls are that engine's
Switch ==
  /\ other.created
  /\ other' = Closure
  /\ isMobile' = other.isMobile /\ reducedMotion' = other.reducedMotion
  /\ width' = other.width /\ height' = other.height /\ baseGroundY' = other.baseGroundY
  /\ worldOffset' = other.worldOffset /\ walkPhase' = other.walkPhase
  /\ time' = other.time /\ wind' = other.wind
  /\ pools' = other.pools /\ spawners' = other.spawners /\ colors' = other.colors
  /\ lastOp' = "switch"
  /\ drawn' = <<>> /\ admitted' = <<>> /\ events' = NoEvents /\ culled' = <<>>
  /\ UNCHANGED <<theme, seed, rng, nextId, quota, capTables, leg, gait>>

\* the second engine is built for the other canvas size and the other
\* capacity table; the frame loop calls update with full frames
NextPair ==
  \/ CreateOther(CHOOSE sz \in Sizes : sz # InitSize, ~isMobile, FALSE)
  \/ Switch
  \/ UpdateTo(MAX_DT, MaxPairTicks)
  \/ Draw(1)
  \/ \E sz \in Sizes : Resize(sz[1] * PX, sz[2] * PX)
  \/ \E th \in Themes : OnThemeChange(th)
  \/ \E b \in BOOLEAN : SetReducedMotion(b)

InitPair == Init /\ seed = Len(Tapes) /\ ~reducedMotion

SpecPair == InitPair /\ [][NextPair]_vars

(***************************************************************************)
(* Properties                                                              *)
(***************************************************************************)
LiveIdx(t) == 1..pools[t].count
AdmittedOf(t) == {i \in 1..Len(admitted) : admitted[i].type = t}

\* C1: in every reachable state, on the desktop and on the mobile capacity
\* table, each of the 11 pools holds at most as many live entities as its
\* type's capacity.
C1_PoolWithinCapacity == \A t \in TypeSet : pools[t].count <= caps[t]
\* an update whose mountain cluster filled the mountain pool to its capacity
C1_Witness ==
  /\ lastOp = "update"
  /\ AdmittedOf("mountain") # {}
  /\ pools["mountain"].count = caps["mountain"]

\* C2: while reduced motion is active, update(dt) changes neither the clock,
\* the camera offset, the walk phase, the wind, any pool nor any spawner
\* threshold.
C2_UpdateNoOpInReducedMotion ==
  [][(reducedMotion /\ lastOp' = "update")
       => UNCHANGED <<time, worldOffset, walkPhase, wind, pools, spawners>>]_vars
\* update was called after setReducedMotion(true): offset and phase are still 0
C2_Witness ==
  /\ reducedMotion /\ lastOp = "update" /\ quota < MaxIrregular
  /\ worldOffset = 0 /\ walkPhase = 0

\* the counts of a freshly seeded scene
SeededCounts ==
  /\ pools["star"].count = starCount(isMobile)
  /\ pools["cloud"].count = cloudCount(isMobile)
  /\ pools["balloon"].count = 1
  /\ pools["bird"].count \in {2, 3}
  /\ pools["mountain"].count \in 6..10
  /\ pools["grassTuft"].count = grassCount(isMobile)
  /\ pools["pebble"].count = pebbleCount(isMobile)
  /\ \A t \in {"meteor", "ufo", "whale", "jellyfish"} : pools[t].count = 0

\* C3: a call setReducedMotion(true) leaves clock, camera offset, walk phase
\* and wind at 0 and the pools holding a freshly seeded scene: every live
\* entity is an object created by the call, and the meteor, ufo, whale and
\* jellyfish pools are empty.
C3_ResetSeedsFreshScene ==
  [][lastOp' = "setReducedMotion(true)"
       => /\ time' = 0 /\ worldOffset' = 0 /\ walkPhase' = 0 /\ wind' = 0
          /\ SeededCounts'
          /\ \A t \in TypeSet : \A i \in 1..pools'[t].count :
               pools'[t].items[i].id >= nextId /\ pools'[t].items[i].born = 0]_vars
\* the call came when the camera had moved and a meteor had been in its pool
C3_Witness ==
  /\ lastOp = "setReducedMotion(true)"
  /\ pools["meteor"].items[1] # Undef
  /\ pools["meteor"].count = 0

\* C4: in an animated update each type takes one of three ways: not due
\* (offset + width < next): nothing admitted, next unchanged; due with a full
\* pool: nothing admitted, next = offset + width + r with r in [min, max];
\* due otherwise: one spawn event admitted, next = offset + width + r.
C4_TrySpawnCases ==
  [][(~reducedMotion /\ lastOp' = "update") =>
       \A t \in TypeSet :
          LET rightEdge == worldOffset' + width
              r == spawners'[t] - rightEdge
              adm == {i \in 1..Len(admitted') : admitted'[i].type = t}
          IN  IF rightEdge < spawners[t]
              THEN events'[t] = 0 /\ adm = {} /\ spawners'[t] = spawners[t]
              ELSE /\ r >= minInterval(t) /\ r <= maxInterval(t)
                   /\ IF pools[t].count >= caps[t]
                      THEN events'[t] = 0 /\ adm = {}
                      ELSE /\ events'[t] = 1 /\ adm # {}
                           /\ \A i, j \in adm : admitted'[i].event = admitted'[j].event]_vars
\* on mobile the balloon spawner came due while the seeded balloon filled the
\* pool: the threshold moved and the seeded balloon is still the only one
C4_Witness ==
  /\ isMobile /\ lastOp = "update"
  /\ spawners["balloon"] # InitialSpawners(InitSize[1] * PX)["balloon"]
  /\ pools["balloon"].count = 1
  /\ pools["balloon"].items[1].born = 0
\* C5: every entity the spawner admits during update, peaks of a mountain
\* cluster and birds of a formation included, has screen position
\* worldX - cameraOffset * parallax >= width at the moment of its push.
C5_AdmittedBeyondRightEdge ==
  lastOp = "update" => \A i \in 1..Len(admitted) : admitted[i].screenX >= width

\* the types of the staggered first appearances
RareTypes == {"meteor", "balloon", "jellyfish", "ufo", "whale"}

\* C6: in a fresh animated engine that is never resized, the spawner admits no
\* meteor while cameraOffset < 0.8 * width, no balloon while cameraOffset <
\* 2.2 * width, no jellyfish below 2.5 * width, no UFO below 3 * width and no
\* whale below 3.8 * width.
C6_RareAfterDistanceTraveled ==
  (lastOp = "update" /\ quota = MaxIrregular) =>
     \A i \in 1..Len(admitted) :
        admitted[i].type \in RareTypes
          => worldOffset >= (width \div 10) * SpawnCfg[admitted[i].type][1]

\* ticks since e was pushed, and the distance a parallax-1 entity has moved
\* left on screen since then
Elapsed(e) == time - e.born
Walked(ticks) == WALK_SPEED * UPT * ticks
GroundTypes == {"grassTuft", "pebble"}

\* C7 (as stated): a grass tuft or pebble admitted at screenX = width + D,
\* D in [20, 80], is out of its pool from the update on at which the time since
\* admission reaches (width + D + 200) / 45 seconds exactly.
C7_RemovedAtExactTime ==
  \A t \in GroundTypes : \A i \in LiveIdx(t) :
     LET e == pools[t].items[i]
     IN  (e.sx0 >= width + 20 * PX /\ e.sx0 <= width + 80 * PX)
           => Walked(Elapsed(e)) < e.sx0 + CULL_MARGIN * PX

\* C7 (amended): a grass tuft or pebble pushed at screen position x0 stays in
\* its pool while the time since the push is at most (x0 + 200) / 45 seconds,
\* screen position -200 included, and is removed by the first update at which
\* that time is exceeded.
C7_RemovedAfterMargin ==
  \A t \in GroundTypes :
     /\ \A i \in LiveIdx(t) :
           Walked(Elapsed(pools[t].items[i])) <= pools[t].items[i].sx0 + CULL_MARGIN * PX
     /\ \A k \in 1..Len(culled) :
           culled[k].type = t
             => /\ Walked(Elapsed(culled[k])) > culled[k].sx0 + CULL_MARGIN * PX
                /\ Walked(Elapsed(culled[k]) - MAX_DT) <= culled[k].sx0 + CULL_MARGIN * PX
\* an admitted tuft or pebble was at -200 exactly one frame ago and has been
\* removed by this update
C7_Witness ==
  /\ lastOp = "update"
  /\ \E k \in 1..Len(culled) :
        /\ culled[k].type \in GroundTypes
        /\ culled[k].sx0 >= width + 20 * PX /\ culled[k].sx0 <= width + 80 * PX
        /\ Walked(Elapsed(culled[k]) - MAX_DT) = culled[k].sx0 + CULL_MARGIN * PX

\* C8: at the end of every update every meteor in the pool has life > 0; its
\* life is 2 less 1.5 per second since it was admitted, so none is in the pool
\* 2/1.5 seconds after its admission or later.
C8_MeteorsAlive ==
  lastOp = "update" =>
     \A i \in LiveIdx("meteor") :
        LET m == pools["meteor"].items[i]
        IN  /\ m.life > 0
            /\ m.life = 2000 - (1500 * Elapsed(m)) \div TPS
            /\ 1500 * Elapsed(m) < 2000 * TPS
\* the cull pass of an update removed a meteor whose life had run out while it
\* was still right of the cull margin
C8_Witness ==
  /\ lastOp = "update"
  /\ \E k \in 1..Len(culled) :
        /\ culled[k].type = "meteor" /\ culled[k].life <= 0
        /\ sx(culled[k].worldX, culled[k].parallax, worldOffset) >= -(CULL_MARGIN * PX)

\* C9: right after construction and right after setReducedMotion(true) the
\* star pool holds 20 entities on desktop and 14 on mobile, the balloon pool
\* holds 1, and every star's worldX lies in [0, width].
C9_SeededSky ==
  lastOp \in {"create", "setReducedMotion(true)"} =>
     /\ pools["star"].count = (IF isMobile THEN 14 ELSE 20)
     /\ pools["balloon"].count = 1
     /\ \A i \in LiveIdx("star") :
           pools["star"].items[i].worldX >= 0 /\ pools["star"].items[i].worldX <= width
\* a scene seeded again after the walk had begun, with a star in the last
\* twentieth of the width
C9_Witness ==
  /\ lastOp = "setReducedMotion(true)"
  /\ pools["meteor"].items[1] # Undef
  /\ \E i \in LiveIdx("star") : pools["star"].items[i].worldX > width - width \div 20

\* the commands of a draw() without the tentacle lengths
NoTent(cmds) == [k \in 1..Len(cmds) |-> [cmds[k] EXCEPT !.tent = <<>>]]
TentCounts(cmds) == [k \in 1..Len(cmds) |-> Len(cmds[k].tent)]

\* C10 (as stated): two draw() calls in succession issue the same commands
\* with the same arguments.
C10_DrawTwiceIdentical ==
  [][(lastOp = "draw" /\ lastOp' = "draw") => drawn' = drawn]_vars

\* C10 (amended): two draw() calls in succession issue the same commands with
\* the same arguments except for the lengths of the tentacles of the visible
\* jellyfish; with no jellyfish visible the two outputs are identical.
C10_DrawTwiceSameButTentacles ==
  [][(lastOp = "draw" /\ lastOp' = "draw")
       => /\ NoTent(drawn') = NoTent(drawn)
          /\ TentCounts(drawn') = TentCounts(drawn)
          /\ ~jitterDrawn => drawn' = drawn]_vars
\* a draw() that painted a jellyfish with two tentacles of different lengths
C10_Witness ==
  /\ lastOp = "draw"
  /\ \E k \in 1..Len(drawn) :
        /\ drawn[k].layer = "jellyfish"
        /\ Len(drawn[k].tent) >= 2
        /\ drawn[k].tent[1] # drawn[k].tent[2]
\* C11: draw() never changes the engine state: it leaves the clock, the camera
\* offset, the walk phase, the wind, every pool, every spawner threshold and
\* the cached colors as they were, in animated and in reduced-motion mode.
C11_DrawChangesNothing ==
  [][lastOp' = "draw"
       => UNCHANGED <<time, worldOffset, walkPhase, wind, pools, spawners, colors,
                      reducedMotion, width, height, baseGroundY>>]_vars
\* a draw() of a walking scene that painted a jellyfish
C11_Witness ==
  /\ lastOp = "draw" /\ time > 0 /\ ~reducedMotion
  /\ \E k \in 1..Len(drawn) : drawn[k].layer = "jellyfish"

\* the screen position of entity e at camera offset off
ScreenX(e, off) == sx(e.worldX, e.parallax, off)
\* the screen velocity of e in units per tick under wind w: its own motion
\* less the camera's at its parallax
OwnRate(e, w) ==
  CASE e.type = "bird" -> e.velocity + WindRate(w, 5)
    [] e.type = "balloon" -> e.driftSpeed + WindRate(w, 3)
    [] e.type = "jellyfish" -> e.driftSpeed + WindRate(w, 2)
    [] e.type = "cloud" -> e.driftSpeed + WindRate(w, 2)
    [] e.type = "whale" -> e.velocity
    [] e.type = "meteor" -> -((e.speed \div 1000) * Cos1000(e.angle))
    [] OTHER -> 0
ScreenRate(e, w) == OwnRate(e, w) - ((WALK_SPEED * UPT) \div 20) * e.parallax
\* the pairs (entity before, entity after) of the entities that are in their
\* pool before and after a step
Survivors ==
  UNION {{<<pools[t].items[x[1]], pools'[t].items[x[2]]>> :
            x \in {y \in (1..pools[t].count) \X (1..pools'[t].count) :
                     pools[t].items[y[1]].id = pools'[t].items[y[2]].id}} :
         t \in TypeSet}

C13_ClockNeverDecreases ==
  [][lastOp' # "setReducedMotion(true)"
       => time' >= time /\ worldOffset' >= worldOffset]_vars
\* the entity of a pool that a painted shape belongs to
EntityOf(shape) ==
  CHOOSE e \in {pools[shape.layer].items[i] : i \in LiveIdx(shape.layer)} : e.id = shape.id
\* the cull pass tests worldX - cameraOffset * parallax and nothing else: what
\* an update leaves in a pool is at or right of the margin, and what it removes
\* was left of it or a spent meteor
CullTestsCameraRelativeX ==
  lastOp = "update" =>
    /\ \A t \in TypeSet : \A i \in LiveIdx(t) :
          ScreenX(pools[t].items[i], worldOffset) >= -(CULL_MARGIN * PX)
    /\ \A k \in 1..Len(culled) :
          \/ ScreenX(culled[k], worldOffset) < -(CULL_MARGIN * PX)
          \/ culled[k].type = "meteor" /\ culled[k].life <= 0

\* C14 (as stated): for every entity of every type, formation followers
\* included, the horizontal position at which draw places it and the position
\* the cull pass tests are both exactly worldX - cameraOffset * parallax; no
\* other per-entity offset enters either.
C14_PlacedAtCameraRelativeX ==
  /\ CullTestsCameraRelativeX
  /\ lastOp = "draw" =>
       \A k \in 1..Len(drawn) :
          drawn[k].id # 0
            => /\ drawn[k].x = ScreenX(EntityOf(drawn[k]), worldOffset)
               /\ drawn[k].px = drawn[k].x

\* C14 (amended): the cull pass tests exactly worldX - cameraOffset * parallax
\* for every entity of every type. draw places stars, meteors, clouds, whales,
\* jellyfish, mountains, pebbles, grass tufts and UFOs at exactly that
\* position; a bird is placed (and tested for visibility and faded) at that
\* position plus its formationOffsetX, which is 0 for a leader and negative
\* for a follower; a balloon is painted at that position plus its sway,
\* sin(swayPhase) * 3 + wind * 2.
C14_PlacedAtCameraRelativeXPlusOffset ==
  /\ CullTestsCameraRelativeX
  /\ lastOp = "draw" =>
       \A k \in 1..Len(drawn) :
          drawn[k].id # 0
            => LET e == EntityOf(drawn[k])
               IN  /\ drawn[k].x = ScreenX(e, worldOffset)
                                     + (IF e.type = "bird" THEN e.formationOffsetX ELSE 0)
                   /\ drawn[k].px = drawn[k].x
                        + (IF e.type = "balloon"
                           THEN (Sin1000(e.swayPhase) * 3 + wind * 2) * (PX \div 1000)
                           ELSE 0)
\* a draw() after some walking that painted a bird following its leader
C14_Witness ==
  /\ lastOp = "draw" /\ time > 0
  /\ \E k \in 1..Len(drawn) :
        /\ drawn[k].layer = "bird"
        /\ EntityOf(drawn[k]).formationOffsetX < 0
        /\ drawn[k].px < ScreenX(EntityOf(drawn[k]), worldOffset)
\* the window of the wind claim, 10,000 s, and the stretch of the waveform
\* compared, 10 s from the current time, in ticks
WindWindow == 10000 * TPS
WindStretch == 10 * TPS
\* the waveform from the current time on is the same P ticks later
WindRepeatsAfter(P) ==
  \A t \in 0..WindStretch : WindAt(time + t + P) = WindAt(time + t)

\* C15: the wind never exactly repeats its waveform within a 10,000 s window:
\* its two sine components share no common period shorter than 10,000 s.
C15_WindNeverRepeats == \A P \in 1..WindWindow : ~WindRepeatsAfter(P)
\* the hip-to-foot distance and the hip-to-knee distance of the solved leg
LegDist == Sqrt(leg.dx * leg.dx + leg.dy * leg.dy)
KneeDist == Sqrt(leg.kneeX * leg.kneeX + leg.kneeY * leg.kneeY)
KneeTol == PoseUnit \div 100
KneeAtMidpoint == leg.kneeX = leg.dx \div 2 /\ leg.kneeY = leg.dy \div 2

C17_MissingColorKeepsPrevious ==
  [][lastOp' = "onThemeChange"
       => \A k \in DOMAIN ColorToken :
             colors'[k] = IF getColor(ColorToken[k], theme') = <<>>
                          THEN colors[k]
                          ELSE getColor(ColorToken[k], theme')]_vars
\* C19: resize(w, h) sets the viewport to (w, h) and the ground line to
\* 0.8 * h in one step and changes nothing else: the clock, the camera offset,
\* the wind, the walk phase, every pool, every spawner threshold, the cached
\* colors and the reduced-motion flag stay as they were.
C19_ResizeSetsViewportOnly ==
  [][lastOp' = "resize"
       => /\ \E sz \in Sizes : width' = sz[1] * PX /\ height' = sz[2] * PX
          /\ 10 * baseGroundY' = 8 * height'
          /\ UNCHANGED <<time, worldOffset, walkPhase, wind, pools, spawners, colors,
                         reducedMotion, isMobile>>]_vars
\* a walking engine resized to a larger canvas, its scene as it was
C19_Witness ==
  /\ lastOp = "resize" /\ time > 0 /\ ~reducedMotion
  /\ width # InitSize[1] * PX /\ 10 * baseGroundY = 8 * height
  /\ pools["star"].count > 0

\* the position of a layer in the order claimed for draw()
LayerRank(l) ==
  CHOOSE r \in 1..14 :
    <<"bg", "star", "meteor", "cloud", "whale", "jellyfish", "balloon", "mountain",
      "groundLine", "pebble", "grassTuft", "bird", "ufo", "stickman">>[r] = l

\* C20: every draw() paints its layers in the order background, stars,
\* meteors, clouds, whales, jellyfish, balloons, mountains, ground line,
\* pebbles, grass tufts, birds, UFOs, and the stickman last, in animated and
\* in reduced-motion mode.
C20_DrawOrder ==
  lastOp = "draw" =>
    /\ drawn[1].layer = "bg"
    /\ drawn[Len(drawn)].layer = "stickman"
    /\ \A i \in 1..(Len(drawn) - 1) :
          LayerRank(drawn[i].layer) <= LayerRank(drawn[i + 1].layer)
    /\ \A l \in {"bg", "groundLine", "stickman"} :
          Cardinality({i \in 1..Len(drawn) : drawn[i].layer = l}) = 1
\* a draw() that painted sky, terrain and foreground entities around the
\* ground line
C20_Witness ==
  /\ lastOp = "draw"
  /\ \A l \in {"star", "cloud", "mountain", "grassTuft", "bird"} :
        \E i \in 1..Len(drawn) : drawn[i].layer = l
\* C18: two engine instances do not interfere: any operation on one leaves
\* the other's clock, camera offset, wind, pools, spawner thresholds,
\* dimensions and cached colors unchanged.  Constructing the second engine
\* leaves the first as it was, every call of the API of one engine leaves the
\* closure of the other as it was, and no call writes the capacity tables the
\* two share.
C18_InstancesIndependent ==
  [][/\ capTables' = capTables
     /\ lastOp' = "createOther" => UNCHANGED engineVars
     /\ lastOp' \notin {"createOther", "switch"} => other' = other]_vars
\* both engines exist and have been called: this one was updated after the
\* other one had walked, and the two differ in size and scene
C18_Witness ==
  /\ other.created /\ lastOp = "update"
  /\ time > 0 /\ other.time > 0
  /\ other.width # width
  /\ other.pools # pools
\* C21: for fixed parallax and base alpha the alpha entityAlpha returns is
\* non-increasing in screenX over every position at which an entity is drawn,
\* positions at or beyond the right edge included: an entity never becomes
\* less opaque as it moves left.  For every entity a draw() paints, its alpha
\* at any position up to 60 px further left is at least the alpha painted.
C21_AlphaNonIncreasingInScreenX ==
  lastOp = "draw" =>
    \A k \in 1..Len(drawn) :
       drawn[k].id # 0 =>
         LET e == EntityOf(drawn[k])
         IN  \A step \in 1..FADE_IN_DISTANCE :
                entityAlpha(drawn[k].x - step * PX, e.parallax, width, baseAlphaOf(e))
                  >= drawn[k].alpha
\* C22: an entity the cull pass removes is placed on its type's free list and
\* the next creation of an entity of that type takes an instance from the free
\* list instead of constructing a new one.  When an update's cull pass has
\* removed entities of a type and the next update admits an entity of that
\* type, the admitted instance is one of the removed ones.
C22_CulledInstanceReused ==
  [][(lastOp = "update" /\ lastOp' = "update")
       => \A i \in 1..Len(admitted') :
             (\E k \in 1..Len(culled) : culled[k].type = admitted'[i].type)
               => \E k \in 1..Len(culled) :
                     /\ culled[k].type = admitted'[i].type
                     /\ culled[k].id = admitted'[i].id]_vars
\* the instances in the live slots of all pools, and the number of live slots
LiveIds == UNION {{pools[t].items[i].id : i \in LiveIdx(t)} : t \in TypeSet}
RECURSIVE LiveCountFrom(_)
LiveCountFrom(k) ==
  IF k > Len(SPAWN_TYPES) THEN 0 ELSE pools[SPAWN_TYPES[k]].count + LiveCountFrom(k + 1)

\* C23: in every reachable state no entity instance occupies two live slots
\* (index < count) of one pool, nor live slots of two different pools, and no
\* live slot is empty: the live slots hold as many different instances as
\* there are live slots.
C23_NoInstanceTwice ==
  /\ 0 \notin LiveIds
  /\ Cardinality(LiveIds) = LiveCountFrom(1)
\* an update that admitted entities and whose cull pass moved the last item of
\* a pool into a vacated slot
C23_Witness ==
  /\ lastOp = "update" /\ admitted # <<>>
  /\ \E k \in 1..Len(culled) : \E i \in LiveIdx(culled[k].type) :
        /\ pools[culled[k].type].items[i].id > culled[k].id
        /\ \E j \in LiveIdx(culled[k].type) :
              j > i /\ pools[culled[k].type].items[j].id < pools[culled[k].type].items[i].id
\* the instances an update's cull pass removed
CulledIds == {culled[k].id : k \in 1..Len(culled)}
\* sxPos < -200 || !isAlive(item), as the claim words it
OffLeftOrSpent(e, off) ==
  \/ e.worldX - (off \div 20) * e.parallax < -(200 * PX)
  \/ e.type = "meteor" /\ e.life <= 0

\* C24: one cull pass removes exactly the entities whose screen position is
\* < -200 or whose liveness predicate is false and keeps every other entity
\* exactly once, the element swapped into a vacated slot included; no entity
\* is removed for being beyond the right edge.  After every update the
\* entities that were live before it or admitted by it are, each exactly
\* once, either removed (and then off the left margin or spent) or live (and
\* then neither).
C24_CullRemovesExactly ==
  [][lastOp' = "update"
       => /\ LiveIds' \cup CulledIds' = LiveIds \cup {admitted'[i].id : i \in 1..Len(admitted')}
          /\ LiveIds' \cap CulledIds' = {}
          /\ Cardinality(CulledIds') = Len(culled')
          /\ C23_NoInstanceTwice'
          /\ \A k \in 1..Len(culled') : OffLeftOrSpent(culled'[k], worldOffset')
          /\ \A t \in TypeSet : \A i \in 1..pools'[t].count :
                ~OffLeftOrSpent(pools'[t].items[i], worldOffset')]_vars
\* a cull pass that removed two entities of one pool
C24_Witness ==
  /\ lastOp = "update"
  /\ \E k1, k2 \in 1..Len(culled) : k1 # k2 /\ culled[k1].type = culled[k2].type
\* C25: at every draw, after any sequence of cluster spawns and culls, any
\* two mountain peaks of one cluster that are both still in the pool are
\* drawn tallest-first: the taller precedes the shorter in the pool's
\* iteration order.
C25_ClusterDrawnTallestFirst ==
  lastOp = "draw" =>
    \A i, j \in LiveIdx("mountain") :
       (i < j /\ pools["mountain"].items[i].cluster = pools["mountain"].items[j].cluster)
         => pools["mountain"].items[i].peakHeight >= pools["mountain"].items[j].peakHeight
\* the types seeded one per slot, and how many of each
SlotSeeded == {"star", "cloud", "grassTuft", "pebble"}
SeedCount(t) ==
  CASE t = "star" -> starCount(isMobile)
    [] t = "cloud" -> cloudCount(isMobile)
    [] t = "grassTuft" -> grassCount(isMobile)
    [] t = "pebble" -> pebbleCount(isMobile)
\* the pools hold the seeded scene and nothing else
JustSeeded == lastOp \in {"create", "setReducedMotion(true)"}
\* the seeded instances of type t in the closed bin i of n
InClosedBin(t, i, n) ==
  {k \in LiveIdx(t) : /\ i * (width \div n) <= pools[t].items[k].worldX
                      /\ pools[t].items[k].worldX <= (i + 1) * (width \div n)}
\* the same for the bin without its right end
InHalfOpenBin(t, i, n) ==
  {k \in LiveIdx(t) : /\ i * (width \div n) <= pools[t].items[k].worldX
                      /\ pools[t].items[k].worldX < (i + 1) * (width \div n)}

\* C26: after initial seeding with N stars (likewise N clouds, N grass tufts,
\* N pebbles), each of the N equal-width bins [i*width/N, (i+1)*width/N]
\* contains exactly one seeded instance.
C26_OnePerClosedBin ==
  JustSeeded =>
    \A t \in SlotSeeded :
       /\ pools[t].count = SeedCount(t)
       /\ \A i \in 0..(SeedCount(t) - 1) : Cardinality(InClosedBin(t, i, SeedCount(t))) = 1
\* C26 as amended: each of the N bins [i*width/N, (i+1)*width/N), the left end
\* included and the right end not, contains exactly one seeded instance.
C26_OnePerHalfOpenBin ==
  JustSeeded =>
    \A t \in SlotSeeded :
       /\ pools[t].count = SeedCount(t)
       /\ \A i \in 0..(SeedCount(t) - 1) : Cardinality(InHalfOpenBin(t, i, SeedCount(t))) = 1
\* a seeded scene in which a star sits on the boundary of two bins
C26_Witness ==
  /\ JustSeeded
  /\ \E k \in LiveIdx("star") : \E i \in 1..(starCount(isMobile) - 1) :
        pools["star"].items[k].worldX = i * (width \div starCount(isMobile))
\* C27: after setReducedMotion(true) followed by setReducedMotion(false) in
\* any reachable state, spawning resumes as in a fresh engine: every type's
\* next-spawn threshold is at most the value it had at construction (so that
\* a star and a grass tuft are admitted before the camera, restarted from
\* offset 0, has travelled more than the type's maximal interval).
C27_ThresholdsAsAtConstruction ==
  [][(lastOp = "setReducedMotion(true)" /\ lastOp' = "setReducedMotion(false)")
       => \A t \in TypeSet : spawners'[t] <= InitialSpawners(InitSize[1] * PX)[t]]_vars
\* the strongest wind: both sines of the wind formula at 1, in thousandths
MaxWind == 300 + 200
\* the entities in live slots
LiveEntities == UNION {{pools[t].items[i] : i \in LiveIdx(t)} : t \in TypeSet}
\* the least e moves to the left on screen per tick, whatever the wind: the
\* camera's motion at its parallax less its own under the strongest tail wind
MinDrop(e) == -ScreenRate(e, MaxWind)
\* the clock by which e, admitted at screen position sx0, has passed the margin
Deadline(e) == e.born + (e.sx0 + CULL_MARGIN * PX) \div MinDrop(e) + MAX_DT
\* every entity of the seeded scene that can cross the canvas and the margin
\* within the run has been removed
SeededSceneGone == \A e \in LiveEntities : e.born = 0 => Deadline(e) > MaxRunTicks

\* C28: in animated mode, under an unbroken sequence of updates with dt > 0,
\* every entity of every type -- the fastest bird under the strongest tail
\* wind included -- has a screen position that does not increase from update
\* to update, and is eventually removed: it moves left by at least MinDrop > 0
\* in every tick of its life, so it is behind the margin, and culled, by its
\* deadline, and the seeded entities whose deadline lies within the run are
\* all removed in the end.
C28_DriftsLeftAndLeaves ==
  /\ [][lastOp' = "update"
          => \A p \in Survivors : ScreenX(p[2], worldOffset') <= ScreenX(p[1], worldOffset)]_vars
  /\ [](\A e \in LiveEntities :
           /\ MinDrop(e) > 0
           /\ ScreenX(e, worldOffset) <= e.sx0 - (time - e.born) * MinDrop(e)
           /\ time <= Deadline(e))
  /\ <>SeededSceneGone
\* a bird has just been removed, and what is left of the seeded scene cannot
\* leave within the run
C28_Witness ==
  /\ lastOp = "update" /\ SeededSceneGone
  /\ \E k \in 1..Len(culled) : culled[k].type = "bird"
\* t < 0.6: the leg is on the stance part of its cycle
OnStance(t) == 10 * t < 6 * CycleUnits

\* C29: in the animated walk cycle, for every walk-phase value at least one
\* foot is in stance (lift exactly 0): the swing intervals of the two legs
\* never overlap.
C29_OneFootInStance ==
  gait.posed =>
    \/ OnStance(leftT(gait.phase)) /\ gait.leftLift = 0
    \/ OnStance(rightT(leftT(gait.phase))) /\ gait.rightLift = 0
\* a pose with the left foot in the air and the right foot on the ground
C29_Witness ==
  /\ gait.posed /\ gait.leftLift > 0 /\ gait.rightLift = 0
  /\ ~OnStance(leftT(gait.phase))
\* C30: after resize(w, h) in any reachable state, every ground-anchored
\* entity already in a pool rests on the current ground line: the y of each
\* mountain and grass tuft is 0.8 * h, and the y of each pebble lies 1 to 3
\* units below it.
C30_TerrainOnGroundAfterResize ==
  lastOp = "resize" =>
    /\ \A t \in {"mountain", "grassTuft"} : \A i \in LiveIdx(t) :
          pools[t].items[i].y = (height \div 100) * GROUND_Y_RATIO
    /\ \A i \in LiveIdx("pebble") :
          /\ pools["pebble"].items[i].y >= (height \div 100) * GROUND_Y_RATIO + 1 * PX
          /\ pools["pebble"].items[i].y <= (height \div 100) * GROUND_Y_RATIO + 3 * PX
====
